---------------------------- MODULE Spec2Model ----------------------------
(***************************************************************************)
(* A model of the task-cli repository layer (src/app/repo.py) and of the   *)
(* command handlers that call it (src/app/cli.py).                         *)
(*                                                                         *)
(* The file system is a map from paths to file contents.  A file is        *)
(* absent, holds bytes that are not UTF-8, or holds text; text is kept as  *)
(* the sequence of JSON tokens that json.dump writes and json.load reads   *)
(* (whitespace, and so the indent, carries no information).  Decoded       *)
(* values are tagged records: the tag is the Python type of the value.     *)
(* OSError (permissions, full disk) is outside the model: the file system  *)
(* is assumed to work.  A str may hold a lone surrogate (json.load decodes *)
(* the escape \udcff to one; so does a command-line argument that is not   *)
(* UTF-8): the file's utf-8 encoder refuses it when it is written.         *)
(***************************************************************************)
EXTENDS Integers, Sequences, FiniteSets, TLC

VARIABLES
    fs,      \* path -> file contents
    clock,   \* the last reading of datetime.now(timezone.utc)
    result,  \* what the last call did: its arguments, the exception, the return value
    value,   \* the decoded value handed to the schema validator
    inv      \* the invocations that run side by side: where each has got to

vars == <<fs, clock, result, value, inv>>

-----------------------------------------------------------------------------
(* Bounds of the model *)

MaxClock == 3
MaxTasks == 3

\* the descriptions add and update are called with
NewDescriptions == {"a"}
Descriptions == {"a", "b"}

-----------------------------------------------------------------------------
(* Python values, as json.load produces them and json.dump accepts them *)

None == [t |-> "NoneType"]
PyInt(n) == [t |-> "int", v |-> n]
PyStr(s) == [t |-> "str", v |-> s]
PyBool(b) == [t |-> "bool", v |-> b]
PyList(items) == [t |-> "list", v |-> items]
\* a dict keeps its keys in insertion order: a sequence of [k, v] with distinct k
PyDict(pairs) == [t |-> "dict", v |-> pairs]

Keys(obj) == [i \in 1..Len(obj.v) |-> obj.v[i].k]
HasKey(obj, key) == \E i \in 1..Len(obj.v) : obj.v[i].k = key
Get(obj, key) == obj.v[CHOOSE i \in 1..Len(obj.v) : obj.v[i].k = key].v

\* dict[key] = val: a key already present keeps its place
DictSet(pairs, key, val) ==
    IF \E i \in 1..Len(pairs) : pairs[i].k = key
    THEN [i \in 1..Len(pairs) |->
            IF pairs[i].k = key THEN [k |-> key, v |-> val] ELSE pairs[i]]
    ELSE Append(pairs, [k |-> key, v |-> val])

\* the integer a Python int or bool compares as (True == 1, False == 0)
IntOf(x) == IF x.t = "bool" THEN (IF x.v THEN 1 ELSE 0) ELSE x.v

-----------------------------------------------------------------------------
(* JSON text as tokens: punctuation, and the scalars themselves *)

Punct(c) == [t |-> "punct", v |-> c]
IsPunct(tok, c) == tok.t = "punct" /\ tok.v = c

RECURSIVE DumpValue(_), DumpElems(_), DumpMembers(_)

DumpValue(x) ==
    IF x.t = "list" THEN <<Punct("[")>> \o DumpElems(x.v) \o <<Punct("]")>>
    ELSE IF x.t = "dict" THEN <<Punct("{")>> \o DumpMembers(x.v) \o <<Punct("}")>>
    ELSE <<x>>

DumpElems(items) ==
    IF Len(items) = 0 THEN <<>>
    ELSE IF Len(items) = 1 THEN DumpValue(items[1])
    ELSE DumpValue(items[1]) \o <<Punct(",")>> \o DumpElems(Tail(items))

DumpMembers(pairs) ==
    IF Len(pairs) = 0 THEN <<>>
    ELSE LET m == <<PyStr(pairs[1].k), Punct(":")>> \o DumpValue(pairs[1].v)
         IN  IF Len(pairs) = 1 THEN m
             ELSE m \o <<Punct(",")>> \o DumpMembers(Tail(pairs))

json_dump(x) == DumpValue(x)

\* a parse from position i: the value and the position after it
ParseFail == [ok |-> FALSE, val |-> None, next |-> 0]
ParseOk(x, next) == [ok |-> TRUE, val |-> x, next |-> next]

RECURSIVE ParseValue(_, _), ParseElems(_, _, _), ParseMembers(_, _, _),
          AfterElem(_, _, _), AfterMember(_, _, _, _)

ParseValue(ts, i) ==
    IF i > Len(ts) THEN ParseFail
    ELSE IF IsPunct(ts[i], "[") THEN
            IF i < Len(ts) /\ IsPunct(ts[i + 1], "]")
            THEN ParseOk(PyList(<<>>), i + 2)
            ELSE ParseElems(ts, i + 1, <<>>)
    ELSE IF IsPunct(ts[i], "{") THEN
            IF i < Len(ts) /\ IsPunct(ts[i + 1], "}")
            THEN ParseOk(PyDict(<<>>), i + 2)
            ELSE ParseMembers(ts, i + 1, <<>>)
    ELSE IF ts[i].t = "punct" THEN ParseFail
    ELSE ParseOk(ts[i], i + 1)

\* after an element r of an array: a comma and the next one, or the bracket
AfterElem(ts, r, acc) ==
    IF ~r.ok \/ r.next > Len(ts) THEN ParseFail
    ELSE IF IsPunct(ts[r.next], ",")
         THEN ParseElems(ts, r.next + 1, Append(acc, r.val))
    ELSE IF IsPunct(ts[r.next], "]")
         THEN ParseOk(PyList(Append(acc, r.val)), r.next + 1)
    ELSE ParseFail

ParseElems(ts, i, acc) == AfterElem(ts, ParseValue(ts, i), acc)

\* after the value r of the member named key: a comma and the next member,
\* or the brace
AfterMember(ts, r, key, acc) ==
    IF ~r.ok \/ r.next > Len(ts) THEN ParseFail
    ELSE IF IsPunct(ts[r.next], ",")
         THEN ParseMembers(ts, r.next + 1, DictSet(acc, key, r.val))
    ELSE IF IsPunct(ts[r.next], "}")
         THEN ParseOk(PyDict(DictSet(acc, key, r.val)), r.next + 1)
    ELSE ParseFail

ParseMembers(ts, i, acc) ==
    IF i + 1 > Len(ts) \/ ts[i].t # "str" \/ ~IsPunct(ts[i + 1], ":") THEN ParseFail
    ELSE AfterMember(ts, ParseValue(ts, i + 2), ts[i].v, acc)

\* one value and nothing after it, else JSONDecodeError
WholeText(ts, r) ==
    IF r.ok /\ r.next = Len(ts) + 1 THEN [ok |-> TRUE, val |-> r.val]
    ELSE [ok |-> FALSE, val |-> None]

json_load(ts) == WholeText(ts, ParseValue(ts, 1))

-----------------------------------------------------------------------------
(* Files *)

REPO_FILE_PATH == "data/tasks.json"
OtherPath == "other/tasks.json"
Paths == {REPO_FILE_PATH, OtherPath}

Absent == [kind |-> "absent"]
Bytes == [kind |-> "bytes"]              \* bytes that are not UTF-8
Text(toks) == [kind |-> "text", toks |-> toks]

\* the one-character str that is the lone surrogate U+DCFF; every other
\* string of the model is text that UTF-8 encodes
LoneSurrogate == "<U+DCFF>"
Utf8Encodable(s) == s # LoneSurrogate

\* repo_file.write(chunk) of a token json.dump yields: with ensure_ascii=False
\* a str is written as it is, and the write raises UnicodeEncodeError when
\* the file's encoding has no bytes for it
Writes(tok) == tok.t # "str" \/ Utf8Encodable(tok.v)
AllWrite(toks) == \A i \in 1..Len(toks) : Writes(toks[i])

\* the tokens that reach the file: all of them, or those before the first
\* one whose write raises (the file was truncated when it was opened)
WrittenPrefix(toks) ==
    IF AllWrite(toks) THEN toks
    ELSE SubSeq(toks, 1,
                (CHOOSE i \in 1..Len(toks) :
                    ~Writes(toks[i]) /\ \A h \in 1..(i - 1) : Writes(toks[h])) - 1)


-----------------------------------------------------------------------------
(* Schemas *)

TASK_STATUS == <<"todo", "in_progress", "done">>
TaskStatusEnum == {TASK_STATUS[i] : i \in 1..Len(TASK_STATUS)}

Class(name) == [kind |-> "class", name |-> name]
Literal(args) == [kind |-> "literal", args |-> args]

\* Task.__annotations__, in declaration order; every key is required
Task ==
    << [k |-> "id",          type |-> Class("int")],
       [k |-> "description", type |-> Class("str")],
       [k |-> "status",      type |-> Literal(TASK_STATUS)],
       [k |-> "created_at",  type |-> Class("str")],
       [k |-> "updated_at",  type |-> Class("str")] >>

-----------------------------------------------------------------------------
(* The structural validator *)

\* isinstance(value, int) is True of a bool: bool is a subclass of int
IsInstance(x, name) ==
    IF name = "int" THEN x.t \in {"int", "bool"}
    ELSE x.t = name

_check_value_type(x, expected_type) ==
    IF expected_type.kind = "literal"
    THEN x.t = "str" /\ \E i \in 1..Len(expected_type.args) : expected_type.args[i] = x.v
    ELSE IsInstance(x, expected_type.name)

NoExc == [kind |-> "none"]

\* the exception _assert_typed_dict raises, or NoExc
_assert_typed_dict(obj, schema) ==
    IF obj.t # "dict" THEN [kind |-> "NotAnObject"]
    ELSE
    LET ann == [i \in 1..Len(schema) |-> schema[i].k]
        InAnn(key) == \E i \in 1..Len(schema) : schema[i].k = key
        IsMissing(key) == ~HasKey(obj, key)
        IsExtra(key) == ~InAnn(key)
        missing == SelectSeq(ann, IsMissing)
        extra == SelectSeq(Keys(obj), IsExtra)
        IsBad(f) == HasKey(obj, f.k) /\ ~_check_value_type(Get(obj, f.k), f.type)
        bad == SelectSeq(schema, IsBad)
    IN  IF Len(missing) > 0 THEN [kind |-> "MissingFields", keys |-> missing]
        ELSE IF Len(extra) > 0 THEN [kind |-> "UnexpectedFields", keys |-> extra]
        ELSE IF Len(bad) > 0 THEN [kind |-> "InvalidFieldType", key |-> bad[1].k]
        ELSE NoExc

\* the loop of _assert_list_valid over the elements' exceptions: the first
\* invalid element stops it
FirstInvalid(errs) ==
    IF \E i \in 1..Len(errs) : errs[i].kind # "none"
    THEN LET i == CHOOSE j \in 1..Len(errs) :
                     errs[j].kind # "none" /\ \A h \in 1..(j - 1) : errs[h].kind = "none"
         IN  [kind |-> "InvalidElement", index |-> i - 1, detail |-> errs[i]]
    ELSE NoExc

\* the exception _assert_list_valid raises, or NoExc
_assert_list_valid(data, schema) ==
    IF data.t # "list" THEN [kind |-> "InvalidStoreFormat"]
    ELSE FirstInvalid([i \in 1..Len(data.v) |-> _assert_typed_dict(data.v[i], schema)])

-----------------------------------------------------------------------------
(* The store reader and the store writer *)

Raise(exc) == [raised |-> exc, data |-> <<>>]
Return(data) == [raised |-> NoExc, data |-> data]
Raised(r) == r.raised.kind # "none"

ListOrRaise(exc, data) == IF exc.kind # "none" THEN Raise(exc) ELSE Return(data.v)

\* the validated list itself, or the validator's exception
_as_list(data, schema) == ListOrRaise(_assert_list_valid(data, schema), data)

\* lines 203-209: open and decode.  A missing file reads as []; bytes that are
\* not UTF-8 raise UnicodeDecodeError, which no except clause catches
JsonOrCorrupted(d) ==
    IF d.ok THEN [raised |-> NoExc, data |-> d.val]
    ELSE [raised |-> [kind |-> "CorruptedStore"], data |-> None]

\* a slip in the reader: FileNotFoundError is not caught
ReadFileMustExist(file) ==
    IF file.kind = "absent"
    THEN [raised |-> [kind |-> "FileNotFoundError"], data |-> None]
    ELSE IF file.kind = "bytes"
         THEN [raised |-> [kind |-> "UnicodeDecodeError"], data |-> None]
    ELSE JsonOrCorrupted(json_load(file.toks))

ReadFile(file) ==
    IF file.kind = "absent" THEN [raised |-> NoExc, data |-> PyList(<<>>)]
    ELSE IF file.kind = "bytes"
         THEN [raised |-> [kind |-> "UnicodeDecodeError"], data |-> None]
    ELSE JsonOrCorrupted(json_load(file.toks))

Validated(r, schema) ==
    IF Raised(r) THEN Raise(r.raised) ELSE _as_list(r.data, schema)

_load(files, schema, repo_path) == Validated(ReadFile(files[repo_path]), schema)

\* the file _write_all leaves at repo_path
_write_all(files, items, repo_path) ==
    [files EXCEPT ![repo_path] = Text(WrittenPrefix(json_dump(PyList(items))))]

\* the exception _write_all raises, or NoExc
WriteExc(items) ==
    IF AllWrite(json_dump(PyList(items))) THEN NoExc
    ELSE [kind |-> "UnicodeEncodeError"]

load_tasks(files, repo_path) == _load(files, Task, repo_path)

-----------------------------------------------------------------------------
(* Task operations of src/app/repo.py.  Each returns the file system and   *)
(* the clock it leaves, the exception it raised and the value it returned. *)

Outcome(files, clk, raised, ret) ==
    [fs |-> files, clock |-> clk, raised |-> raised, ret |-> ret]

\* datetime.isoformat() of the instant n, and its inverse datetime.fromisoformat
IsoFormat(n) == "2024-06-01T12:00:0" \o ToString(n) \o "+00:00"
FromIsoFormat(str) == CHOOSE n \in 0..(MaxClock + 1) : IsoFormat(n) = str

Max(S) == CHOOSE m \in S : \A x \in S : x <= m

\* a slip in the id rule: the number of tasks stands for the largest id
MaxIdByCount(data) == Len(data)

\* a slip in the id rule: the list is taken to be in the order of its ids
MaxIdOfLast(data) ==
    IF Len(data) = 0 THEN 0 ELSE IntOf(Get(data[Len(data)], "id"))

\* max((task["id"] for task in data), default=0)
MaxId(data) ==
    IF Len(data) = 0 THEN 0
    ELSE Max({IntOf(Get(data[i], "id")) : i \in 1..Len(data)})

\* lines 260-262, on the loaded list l
AppendAndWrite(files, clk, item, repo_path, l) ==
    IF Raised(l) THEN Outcome(files, clk, l.raised, None)
    ELSE Outcome(_write_all(files, Append(l.data, item), repo_path), clk,
                 WriteExc(Append(l.data, item)), None)

\* lines 258-262, after the item's own validation gave exc
LoadAndAppend(files, clk, item, schema, repo_path, exc) ==
    IF exc.kind # "none" THEN Outcome(files, clk, exc, None)
    ELSE AppendAndWrite(files, clk, item, repo_path, _load(files, schema, repo_path))

_save(files, clk, item, schema, repo_path) ==
    LoadAndAppend(files, clk, item, schema, repo_path, _assert_typed_dict(item, schema))

save_task(files, clk, task, repo_path) == _save(files, clk, task, Task, repo_path)

NewTask(next_id, description, status, now) ==
    PyDict(<< [k |-> "id",          v |-> PyInt(next_id)],
              [k |-> "description", v |-> PyStr(description)],
              [k |-> "status",      v |-> PyStr(status)],
              [k |-> "created_at",  v |-> PyStr(now)],
              [k |-> "updated_at",  v |-> PyStr(now)] >>)

\* lines 346-357, on the loaded list l.  Line 357 is save_task(task): it
\* passes no repo_path, so the task is saved at save_task's default,
\* REPO_FILE_PATH.  create_task has no return statement: it returns None
BuildAndSave(files, clk, description, status, repo_path, l) ==
    IF Raised(l) THEN Outcome(files, clk, l.raised, None)
    ELSE save_task(files, clk + 1,
                   NewTask(MaxId(l.data) + 1, description, status, IsoFormat(clk + 1)),
                   REPO_FILE_PATH)

create_task(files, clk, description, status, repo_path) ==
    BuildAndSave(files, clk, description, status, repo_path,
                 load_tasks(files, repo_path))

\* next((i for i, t in enumerate(data) if t["id"] == task_id), None), counted
\* from 1; 0 stands for None
FindIndex(data, task_id) ==
    LET Hit(i) == IntOf(Get(data[i], "id")) = task_id IN
    IF \E i \in 1..Len(data) : Hit(i)
    THEN CHOOSE i \in 1..Len(data) : Hit(i) /\ \A h \in 1..(i - 1) : ~Hit(h)
    ELSE 0

\* a slip in the deletion: the element after the match goes when there is one
DelAtNext(data, idx) ==
    [i \in 1..(Len(data) - 1) |-> IF i <= idx THEN data[i] ELSE data[i + 1]]

\* del data[idx]
DelAt(data, idx) ==
    [i \in 1..(Len(data) - 1) |-> IF i < idx THEN data[i] ELSE data[i + 1]]

NotFound(task_id) == [kind |-> "NotFound", task_id |-> task_id]

\* a slip in the deletion: the list is written back before the id is looked for
FindAndDeleteRewrites(files, clk, task_id, repo_path, l) ==
    IF Raised(l) THEN Outcome(files, clk, l.raised, None)
    ELSE IF FindIndex(l.data, task_id) = 0
         THEN Outcome(_write_all(files, l.data, repo_path), clk, NotFound(task_id), None)
    ELSE Outcome(_write_all(files, DelAt(l.data, FindIndex(l.data, task_id)), repo_path),
                 clk, WriteExc(DelAt(l.data, FindIndex(l.data, task_id))), None)

\* lines 376-382, on the loaded list l
FindAndDelete(files, clk, task_id, repo_path, l) ==
    IF Raised(l) THEN Outcome(files, clk, l.raised, None)
    ELSE IF FindIndex(l.data, task_id) = 0
         THEN Outcome(files, clk, NotFound(task_id), None)
    ELSE Outcome(_write_all(files, DelAt(l.data, FindIndex(l.data, task_id)), repo_path),
                 clk, WriteExc(DelAt(l.data, FindIndex(l.data, task_id))), None)

delete_task(files, clk, task_id, repo_path) ==
    FindAndDelete(files, clk, task_id, repo_path, load_tasks(files, repo_path))

\* update_task, mark_task_in_progress and mark_task_done are imported by
\* src/app/cli.py from app.repo, and src/app/repo.py does not define them:
\* they are modelled from sections 4.5 and 6 of the specification
WriteChanged(files, clk, data, idx, changed, repo_path) ==
    Outcome(_write_all(files, [data EXCEPT ![idx] = changed], repo_path),
            clk, WriteExc([data EXCEPT ![idx] = changed]),
            IF WriteExc([data EXCEPT ![idx] = changed]).kind = "none"
            THEN changed ELSE None)

\* a slip in the update: the creation time is refreshed, not the update time
FindAndChangeWrongStamp(files, clk, task_id, key, val, repo_path, l) ==
    IF Raised(l) THEN Outcome(files, clk, l.raised, None)
    ELSE IF FindIndex(l.data, task_id) = 0
         THEN Outcome(files, clk, NotFound(task_id), None)
    ELSE WriteChanged(files, clk + 1, l.data, FindIndex(l.data, task_id),
                      PyDict(DictSet(DictSet(l.data[FindIndex(l.data, task_id)].v,
                                             key, val),
                                     "created_at", PyStr(IsoFormat(clk + 1)))),
                      repo_path)

FindAndChange(files, clk, task_id, key, val, repo_path, l) ==
    IF Raised(l) THEN Outcome(files, clk, l.raised, None)
    ELSE IF FindIndex(l.data, task_id) = 0
         THEN Outcome(files, clk, NotFound(task_id), None)
    ELSE WriteChanged(files, clk + 1, l.data, FindIndex(l.data, task_id),
                      PyDict(DictSet(DictSet(l.data[FindIndex(l.data, task_id)].v,
                                             key, val),
                                     "updated_at", PyStr(IsoFormat(clk + 1)))),
                      repo_path)

ModifyTask(files, clk, task_id, key, val, repo_path) ==
    FindAndChange(files, clk, task_id, key, val, repo_path,
                  load_tasks(files, repo_path))

update_task(files, clk, task_id, description, repo_path) ==
    ModifyTask(files, clk, task_id, "description", PyStr(description), repo_path)

mark_task_in_progress(files, clk, task_id, repo_path) ==
    ModifyTask(files, clk, task_id, "status", PyStr("in_progress"), repo_path)

mark_task_done(files, clk, task_id, repo_path) ==
    ModifyTask(files, clk, task_id, "status", PyStr("done"), repo_path)

-----------------------------------------------------------------------------
(* The commands of src/app/cli.py, one action per invocation *)

\* the last invocation: the command and its arguments (0 and "" for those it
\* does not take), the exception raised, the value the repository function
\* returned and the message printed
NoResult ==
    [op |-> "none", path |-> "", task_id |-> 0, description |-> "",
     raised |-> NoExc, ret |-> None, reported |-> None]

\* the objects a file's text holds: what bounds the stores' sizes
StoreSize(file) ==
    IF file.kind = "text"
    THEN Cardinality({i \in 1..Len(file.toks) : IsPunct(file.toks[i], "{")})
    ELSE 0

\* an invocation of the program: the command and its arguments, the line it
\* has got to, the list it loaded, the task it built, the path it writes and
\* the exception that ended it
Procs == {1, 2}

Idle ==
    [pc |-> "idle", op |-> "none", path |-> "", task_id |-> 0, data |-> <<>>,
     item |-> None, target |-> "", raised |-> NoExc]

\* in the sequential specifications one invocation ends before the next starts
NoInvocations == [i \in Procs |-> Idle]

\* the bounds of the model: the clock and the stores stay small
Bounded(o) ==
    /\ o.clock <= MaxClock
    /\ \A p \in Paths : StoreSize(o.fs[p]) <= MaxTasks

TaskIds == 1..MaxTasks

\* a call with outcome o takes effect
Finish(op, repo_path, task_id, description, o, reported) ==
    /\ Bounded(o)
    /\ fs' = o.fs
    /\ clock' = o.clock
    /\ result' = [op |-> op, path |-> repo_path, task_id |-> task_id,
                  description |-> description, raised |-> o.raised, ret |-> o.ret,
                  reported |-> reported]
    /\ UNCHANGED <<value, inv>>

\* _safe_action: the command's message, or the exception's
Message(o, text) == IF o.raised.kind = "none" THEN text ELSE o.raised

\* what add_task_cmd prints of create_task's outcome o: the ID is the value
\* create_task returned
AddedMessage(o) == Message(o, [kind |-> "added", id |-> o.ret])

Added(description, repo_path, o) ==
    Finish("add_task_cmd", repo_path, 0, description, o, AddedMessage(o))

\* add_task_cmd: the status is create_task's default, TaskStatusEnum.TODO
AddTaskCmd(description, repo_path) ==
    Added(description, repo_path, create_task(fs, clock, description, "todo", repo_path))

UpdateTaskCmd(task_id, description, repo_path) ==
    Finish("update_task_cmd", repo_path, task_id, description,
           update_task(fs, clock, task_id, description, repo_path), None)

DeleteTaskCmd(task_id, repo_path) ==
    Finish("delete_task_cmd", repo_path, task_id, "",
           delete_task(fs, clock, task_id, repo_path), None)

MarkInProgressCmd(task_id, repo_path) ==
    Finish("mark_in_progress_cmd", repo_path, task_id, "",
           mark_task_in_progress(fs, clock, task_id, repo_path), None)

MarkDoneCmd(task_id, repo_path) ==
    Finish("mark_done_cmd", repo_path, task_id, "",
           mark_task_done(fs, clock, task_id, repo_path), None)

\* show_all_cmd: _get_tasks loads the store; nothing is written
Shown(repo_path, l) ==
    /\ result' = [op |-> "show_all_cmd", path |-> repo_path, task_id |-> 0,
                  description |-> "", raised |-> l.raised,
                  ret |-> IF Raised(l) THEN None ELSE PyList(l.data),
                  reported |-> None]
    /\ UNCHANGED <<fs, clock, value, inv>>

ShowAllCmd(repo_path) == Shown(repo_path, load_tasks(fs, repo_path))

Next ==
    \/ \E d \in NewDescriptions, p \in Paths : AddTaskCmd(d, p)
    \/ \E i \in TaskIds, d \in Descriptions, p \in Paths : UpdateTaskCmd(i, d, p)
    \/ \E i \in TaskIds, p \in Paths : DeleteTaskCmd(i, p)
    \/ \E i \in TaskIds, p \in Paths : MarkInProgressCmd(i, p)
    \/ \E i \in TaskIds, p \in Paths : MarkDoneCmd(i, p)
    \/ \E p \in Paths : ShowAllCmd(p)

\* every store absent: a fresh installation
Init ==
    /\ fs = [p \in Paths |-> Absent]
    /\ clock = 0
    /\ result = NoResult
    /\ value = None
    /\ inv = NoInvocations

Spec == Init /\ [][Next]_vars

-----------------------------------------------------------------------------
(* Stores found on disk: left by earlier runs, or edited by hand.  One     *)
(* path holds such a file and the other none; the clock has run since.     *)

StoredTask(id, description, status) ==
    NewTask(id, description, status, IsoFormat(0))

\* the same task with its id written as the JSON literal true
WithBoolId(task) == PyDict(DictSet(task.v, "id", PyBool(TRUE)))

\* the same task without its status
WithoutStatus(task) ==
    LET HasOtherKey(m) == m.k # "status" IN PyDict(SelectSeq(task.v, HasOtherKey))

\* the same task with its keys written in the opposite order
Reversed(task) == PyDict([i \in 1..Len(task.v) |-> task.v[Len(task.v) + 1 - i]])

TextOf(x) == Text(json_dump(x))

\* the text cut n tokens before its end
Truncated(file, n) == Text(SubSeq(file.toks, 1, Len(file.toks) - n))

StoredLists ==
    { <<>>,
      <<StoredTask(3, "a", "todo")>>,
      <<StoredTask(1, "a", "done"), StoredTask(3, "b", "todo")>>,
      <<StoredTask(2, "a", "todo"), StoredTask(2, "b", "in_progress")>>,
      <<WithBoolId(StoredTask(1, "a", "todo"))>>,
      <<Reversed(StoredTask(2, "b", "todo")), StoredTask(1, "a", "todo")>>,
      <<WithoutStatus(StoredTask(1, "a", "todo"))>>,
      <<StoredTask(1, "a", "todo"), PyInt(5)>> }

StoredFiles ==
    {Absent, Bytes, Text(<<>>)}
        \cup {TextOf(PyList(l)) : l \in StoredLists}
        \cup {Truncated(TextOf(PyList(<<StoredTask(1, "a", "todo")>>)), n) : n \in {1, 2}}
        \cup {Text(json_dump(PyList(<<>>)) \o <<PyInt(0)>>)}
        \cup {TextOf(StoredTask(1, "a", "todo")), TextOf(PyInt(7)), TextOf(None)}

InitStored ==
    /\ \E p \in Paths, file \in StoredFiles :
          fs = [q \in Paths |-> IF q = p THEN file ELSE Absent]
    /\ clock = MaxClock - 1
    /\ result = NoResult
    /\ value = None
    /\ inv = NoInvocations

SpecStored == InitStored /\ [][Next]_vars

-----------------------------------------------------------------------------
(* The validator on its own: a decoded value is validated against Task *)

Missing == [t |-> "missing"]

\* an object of the members given, a member that is Missing left out
Object(members) ==
    LET Present(m) == m.v.t # "missing" IN PyDict(SelectSeq(members, Present))

IdValues == {Missing, PyInt(1), PyInt(0), PyBool(TRUE), PyStr("1"), None}
DescriptionValues == {Missing, PyStr("a"), PyStr(""), PyInt(1)}
StatusValues ==
    {Missing, PyStr("todo"), PyStr("in_progress"), PyStr("done"), PyStr("bogus"),
     PyStr("TODO"), PyInt(1)}
TimeValues == {Missing, PyStr(IsoFormat(0)), None}
ExtraValues == {Missing, PyBool(TRUE)}

Objects ==
    { Object(<< [k |-> "id", v |-> i], [k |-> "description", v |-> d],
                [k |-> "status", v |-> s], [k |-> "created_at", v |-> c],
                [k |-> "updated_at", v |-> u], [k |-> "extra", v |-> x] >>) :
        i \in IdValues, d \in DescriptionValues, s \in StatusValues,
        c \in TimeValues, u \in {Missing, PyStr(IsoFormat(0))}, x \in ExtraValues }

Values ==
    Objects \cup {None, PyInt(1), PyStr("todo"), PyBool(TRUE), PyList(<<>>),
                  PyList(<<StoredTask(1, "a", "todo")>>),
                  Reversed(StoredTask(1, "a", "todo"))}

Validate ==
    /\ result' = [op |-> "validate", path |-> "", task_id |-> 0, description |-> "",
                  raised |-> _assert_typed_dict(value, Task),
                  ret |-> None, reported |-> None]
    /\ UNCHANGED <<fs, clock, value, inv>>

InitValidate ==
    /\ fs = [p \in Paths |-> Absent]
    /\ clock = 0
    /\ result = NoResult
    /\ value \in Values
    /\ inv = NoInvocations

SpecValidate == InitValidate /\ [][Validate]_vars

-----------------------------------------------------------------------------
(* The writer and the reader on their own: a list of tasks that the        *)
(* validator accepts is written over whatever the path holds, and loaded.  *)

\* tasks as create builds them and as a load returns them
SomeTasks ==
    { StoredTask(1, "a", "todo"),
      StoredTask(2, "b", "done"),
      Reversed(StoredTask(3, "a", "in_progress")),
      WithBoolId(StoredTask(1, "b", "todo")),
      StoredTask(2, LoneSurrogate, "todo") }

\* the lists of at most two of them that _assert_list_valid accepts
TaskLists ==
    { l \in {<<>>} \cup {<<t>> : t \in SomeTasks}
                   \cup {<<t, u>> : t \in SomeTasks, u \in SomeTasks} :
        _assert_list_valid(PyList(l), Task).kind = "none" }

\* what the path holds before the write
PriorFiles ==
    { Absent, Bytes,
      TextOf(PyList(<<StoredTask(7, "b", "done"), StoredTask(8, "b", "done"),
                      StoredTask(9, "b", "done")>>)) }

WriteAll(repo_path) ==
    /\ fs' = _write_all(fs, value.v, repo_path)
    /\ result' = [op |-> "_write_all", path |-> repo_path, task_id |-> 0,
                  description |-> "", raised |-> WriteExc(value.v),
                  ret |-> None, reported |-> None]
    /\ UNCHANGED <<clock, value, inv>>

Loaded(repo_path, l) ==
    /\ result' = [op |-> "load_tasks", path |-> repo_path, task_id |-> 0,
                  description |-> "", raised |-> l.raised,
                  ret |-> IF Raised(l) THEN None ELSE PyList(l.data),
                  reported |-> None]
    /\ UNCHANGED <<fs, clock, value, inv>>

LoadTasks(repo_path) == Loaded(repo_path, load_tasks(fs, repo_path))

NextRoundTrip ==
    \/ \E p \in Paths : WriteAll(p)
    \/ \E p \in Paths : LoadTasks(p)

InitRoundTrip ==
    /\ \E p \in Paths, file \in PriorFiles :
          fs = [q \in Paths |-> IF q = p THEN file ELSE Absent]
    /\ clock = 0
    /\ result = NoResult
    /\ value \in {PyList(l) : l \in TaskLists}
    /\ inv = NoInvocations

SpecRoundTrip == InitRoundTrip /\ [][NextRoundTrip]_vars

-----------------------------------------------------------------------------
(* Invocations side by side on the same files.  An invocation's loads and  *)
(* its write are separate steps, and the steps of another invocation may   *)
(* fall between them: nothing locks the file.  A load that overlaps a      *)
(* write (the file is truncated when it is opened) is not modelled.        *)

\* create_task, lines 344-355, on the list l loaded at repo_path
CreateBuilt(i, repo_path, description, l) ==
    /\ inv' = [inv EXCEPT ![i] =
          IF Raised(l)
          THEN [Idle EXCEPT !.pc = "done", !.op = "create_task", !.path = repo_path,
                            !.raised = l.raised]
          ELSE [Idle EXCEPT !.pc = "built", !.op = "create_task", !.path = repo_path,
                            !.data = l.data,
                            !.item = NewTask(MaxId(l.data) + 1, description, "todo",
                                             IsoFormat(clock + 1))]]
    /\ clock' = IF Raised(l) THEN clock ELSE clock + 1
    /\ UNCHANGED <<fs, result, value>>

StartCreate(i, description, repo_path) ==
    /\ inv[i].pc = "idle"
    /\ clock < MaxClock
    /\ CreateBuilt(i, repo_path, description, load_tasks(fs, repo_path))

\* _save, lines 256-258, called by line 357 with save_task's default path:
\* the validation of the item gave exc, the load gave l
SaveLoaded(i, exc, l) ==
    /\ inv' = [inv EXCEPT ![i] =
          IF exc.kind # "none" THEN [inv[i] EXCEPT !.pc = "done", !.raised = exc]
          ELSE IF Raised(l) THEN [inv[i] EXCEPT !.pc = "done", !.raised = l.raised]
          ELSE [inv[i] EXCEPT !.pc = "loaded", !.data = l.data,
                              !.target = REPO_FILE_PATH]]
    /\ UNCHANGED <<fs, clock, result, value>>

SaveLoad(i) ==
    /\ inv[i].pc = "built"
    /\ SaveLoaded(i, _assert_typed_dict(inv[i].item, Task),
                  load_tasks(fs, REPO_FILE_PATH))

\* delete_task, lines 374-378, on the list l loaded at repo_path
DeleteLoaded(i, task_id, repo_path, l) ==
    /\ inv' = [inv EXCEPT ![i] =
          IF Raised(l)
          THEN [Idle EXCEPT !.pc = "done", !.op = "delete_task", !.path = repo_path,
                            !.task_id = task_id, !.raised = l.raised]
          ELSE IF FindIndex(l.data, task_id) = 0
          THEN [Idle EXCEPT !.pc = "done", !.op = "delete_task", !.path = repo_path,
                            !.task_id = task_id, !.raised = NotFound(task_id)]
          ELSE [Idle EXCEPT !.pc = "loaded", !.op = "delete_task", !.path = repo_path,
                            !.task_id = task_id, !.data = l.data,
                            !.target = repo_path]]
    /\ UNCHANGED <<fs, clock, result, value>>

StartDelete(i, task_id, repo_path) ==
    /\ inv[i].pc = "idle"
    /\ DeleteLoaded(i, task_id, repo_path, load_tasks(fs, repo_path))

\* the list the invocation r writes: the one it loaded, with its one change
\* (data.append(item), line 260; del data[idx], line 380)
ChangeOf(r) ==
    IF r.op = "create_task" THEN Append(r.data, r.item)
    ELSE DelAt(r.data, FindIndex(r.data, r.task_id))

\* the write made atomic with a load: the change is made to the list the
\* file holds now
WriteOnCurrent(files, r) ==
    _write_all(files,
               ChangeOf([r EXCEPT !.data = load_tasks(files, r.target).data]),
               r.target)

\* _write_all(data, repo_path=repo_path), line 262 and line 382
WriteOwnCopy(files, r) == _write_all(files, ChangeOf(r), r.target)

Write(i) ==
    /\ inv[i].pc = "loaded"
    /\ fs' = WriteOwnCopy(fs, inv[i])
    /\ inv' = [inv EXCEPT ![i].pc = "done",
                          ![i].raised = WriteExc(ChangeOf(inv[i]))]
    /\ UNCHANGED <<clock, result, value>>

NextConcurrent ==
    \/ \E i \in Procs, d \in NewDescriptions, p \in Paths : StartCreate(i, d, p)
    \/ \E i \in Procs : SaveLoad(i)
    \/ \E i \in Procs, id \in TaskIds, p \in Paths : StartDelete(i, id, p)
    \/ \E i \in Procs : Write(i)

\* the stores the invocations start on
ConcurrentStores ==
    { Absent,
      TextOf(PyList(<<StoredTask(3, "a", "todo")>>)),
      TextOf(PyList(<<StoredTask(1, "a", "done"), StoredTask(3, "b", "todo")>>)) }

InitConcurrent ==
    /\ \E p \in Paths, file \in ConcurrentStores :
          fs = [q \in Paths |-> IF q = p THEN file ELSE Absent]
    /\ clock = 0
    /\ result = NoResult
    /\ value = None
    /\ inv = NoInvocations

SpecConcurrent == InitConcurrent /\ [][NextConcurrent]_vars

-----------------------------------------------------------------------------
(* What the claims speak of *)

\* the tasks a store holds, as load returns them (none when it does not load)
Loads(files, repo_path) == ~Raised(load_tasks(files, repo_path))
TasksAt(files, repo_path) == load_tasks(files, repo_path).data
IdOf(task) == IntOf(Get(task, "id"))
IdsOf(tasks) == [i \in 1..Len(tasks) |-> IdOf(tasks[i])]
HoldsId(tasks, id) == \E i \in 1..Len(tasks) : IdOf(tasks[i]) = id
Last(seq) == seq[Len(seq)]

\* the step is the command op, and it raised nothing
Did(r, op) == r.op = op /\ r.raised.kind = "none"

-----------------------------------------------------------------------------
(* C1: from absent stores, after any sequence of create, update, delete,   *)
(* markInProgress and markDone, at any path, no store holds two tasks with *)
(* the same id.                                                            *)
C1_NoDuplicateIds ==
    \A p \in Paths :
        Loads(fs, p) =>
            \A i, j \in 1..Len(TasksAt(fs, p)) :
                i # j => IdOf(TasksAt(fs, p)[i]) # IdOf(TasksAt(fs, p)[j])

(* C2: create gives the new task the id (maximum id of the collection it   *)
(* loaded, or 0 when that is empty) + 1: the id is strictly greater than   *)
(* every id of that collection, and it is 1 more than one of them (1 when  *)
(* there is none), whether or not the ids are contiguous.  The new task is *)
(* the one task some store gains.                                          *)
IsNextId(id, tasks) ==
    /\ \A i \in 1..Len(tasks) : IdOf(tasks[i]) < id
    /\ IF Len(tasks) = 0 THEN id = 1
       ELSE \E i \in 1..Len(tasks) : id = IdOf(tasks[i]) + 1

C2_NewIdIsMaxPlusOne ==
    [][Did(result', "add_task_cmd") =>
          \E q \in Paths :
              LET before == load_tasks(fs, q)
                  after == load_tasks(fs', q)
              IN  /\ ~Raised(before) /\ ~Raised(after)
                  /\ Len(after.data) = Len(before.data) + 1
                  /\ Get(Last(after.data), "id").t = "int"
                  /\ IsNextId(IdOf(Last(after.data)), TasksAt(fs, result'.path))]_vars

\* a create has given id 4 to a task added to a store whose ids were 1 and 3
C2_Witness ==
    /\ Did(result, "add_task_cmd")
    /\ \E p \in Paths : Loads(fs, p) /\ IdsOf(TasksAt(fs, p)) = <<1, 3, 4>>

(* C3: a successful create on path P leaves the store at P as its previous *)
(* sequence followed by the new task, and writes no store at another path. *)
C3_CreateWritesItsOwnPath ==
    [][Did(result', "add_task_cmd") =>
          /\ Loads(fs', result'.path)
          /\ Len(TasksAt(fs', result'.path)) = Len(TasksAt(fs, result'.path)) + 1
          /\ SubSeq(TasksAt(fs', result'.path), 1, Len(TasksAt(fs, result'.path)))
                = TasksAt(fs, result'.path)
          /\ \A q \in Paths \ {result'.path} : fs'[q] = fs[q]]_vars

(* C4: a successful create returns the id stored in the task it persisted, *)
(* and the add command reports that id.                                    *)
C4_CreateReturnsTheNewId ==
    [][Did(result', "add_task_cmd") =>
          \E q \in Paths :
              /\ Loads(fs', q)
              /\ Len(TasksAt(fs', q)) = Len(TasksAt(fs, q)) + 1
              /\ result'.ret = Get(Last(TasksAt(fs', q)), "id")
              /\ result'.reported = [kind |-> "added", id |-> result'.ret]]_vars

(* C5: on a store that loads and holds no task with the given id, update,  *)
(* delete, markInProgress and markDone each fail with NotFound(id), and    *)
(* no file is written: the file system is what it was.                     *)
TakesId(op) ==
    op \in {"update_task_cmd", "delete_task_cmd", "mark_in_progress_cmd", "mark_done_cmd"}

C5_AbsentIdIsNotFound ==
    [][TakesId(result'.op) =>
          LET l == load_tasks(fs, result'.path) IN
          (~Raised(l) /\ ~HoldsId(l.data, result'.task_id)) =>
              /\ result'.raised = [kind |-> "NotFound", task_id |-> result'.task_id]
              /\ fs' = fs]_vars

\* a delete of an id that a store of two tasks does not hold was refused
C5_Witness ==
    /\ result.op = "delete_task_cmd"
    /\ result.raised.kind = "NotFound"
    /\ Loads(fs, result.path)
    /\ Len(TasksAt(fs, result.path)) = 2
    /\ ~HoldsId(TasksAt(fs, result.path), result.task_id)

(* C6: on a store that loads and holds a task with the given id, delete    *)
(* removes exactly one element, a task with that id; every other element   *)
(* stays, with its content and in its order.                               *)
C6_DeleteRemovesOne ==
    [][result'.op = "delete_task_cmd" =>
          LET l == load_tasks(fs, result'.path)
              after == load_tasks(fs', result'.path)
          IN  (~Raised(l) /\ HoldsId(l.data, result'.task_id)) =>
                  /\ result'.raised.kind = "none"
                  /\ ~Raised(after)
                  /\ Len(after.data) = Len(l.data) - 1
                  /\ \E k \in 1..Len(l.data) :
                        /\ IdOf(l.data[k]) = result'.task_id
                        /\ \A j \in 1..Len(after.data) :
                              after.data[j] = IF j < k THEN l.data[j]
                                              ELSE l.data[j + 1]]_vars

\* a delete has removed one of two tasks
C6_Witness ==
    /\ Did(result, "delete_task_cmd")
    /\ Loads(fs, result.path)
    /\ Len(TasksAt(fs, result.path)) = 1
    /\ ~HoldsId(TasksAt(fs, result.path), result.task_id)

(* C7: update on a store holding the id changes only that task's          *)
(* description and updated_at: its id, status, created_at and keys stay,   *)
(* the new updated_at is strictly later than the previous one, every other *)
(* task is unchanged, and so is the order.                                 *)
C7_UpdateChangesOneTask ==
    [][result'.op = "update_task_cmd" =>
          LET l == load_tasks(fs, result'.path)
              after == load_tasks(fs', result'.path)
              Updated(old, new) ==
                  /\ Keys(new) = Keys(old)
                  /\ \A key \in {"id", "status", "created_at"} :
                        Get(new, key) = Get(old, key)
                  /\ Get(new, "description") = PyStr(result'.description)
                  /\ Get(new, "updated_at").t = "str"
                  /\ FromIsoFormat(Get(new, "updated_at").v)
                        > FromIsoFormat(Get(old, "updated_at").v)
          IN  (~Raised(l) /\ HoldsId(l.data, result'.task_id)) =>
                  /\ result'.raised.kind = "none"
                  /\ ~Raised(after)
                  /\ Len(after.data) = Len(l.data)
                  /\ \E k \in 1..Len(l.data) :
                        /\ IdOf(l.data[k]) = result'.task_id
                        /\ Updated(l.data[k], after.data[k])
                        /\ \A j \in 1..Len(l.data) :
                              j # k => after.data[j] = l.data[j]]_vars

\* an update has given one of two tasks the description asked for, just now
C7_Witness ==
    /\ Did(result, "update_task_cmd")
    /\ Loads(fs, result.path)
    /\ Len(TasksAt(fs, result.path)) = 2
    /\ \E k \in 1..2 :
          /\ Get(TasksAt(fs, result.path)[k], "description") = PyStr(result.description)
          /\ Get(TasksAt(fs, result.path)[k], "updated_at") = PyStr(IsoFormat(clock))

(* C8: load of an existing file whose bytes do not decode as JSON fails    *)
(* with CorruptedStore; load of a file that decodes to anything but an     *)
(* array fails with InvalidStoreFormat; in both cases it returns no tasks. *)
DecodesAsJson(file) == file.kind = "text" /\ json_load(file.toks).ok

C8_UndecodableIsCorrupted ==
    result.op = "show_all_cmd" =>
        LET file == fs[result.path] IN
        /\ (file.kind # "absent" /\ ~DecodesAsJson(file)) =>
              (result.raised.kind = "CorruptedStore" /\ result.ret = None)
        /\ (DecodesAsJson(file) /\ json_load(file.toks).val.t # "list") =>
              (result.raised.kind = "InvalidStoreFormat" /\ result.ret = None)

(* C9: load at a path with no file returns the empty sequence, raises      *)
(* nothing and creates no file; a file comes into existence only in a step *)
(* of a command that writes, and that succeeded.                           *)
C9_AbsentLoadsEmpty ==
    [][/\ (result'.op = "show_all_cmd" /\ fs[result'.path] = Absent) =>
             /\ result'.raised = NoExc
             /\ result'.ret = PyList(<<>>)
             /\ fs' = fs
       /\ \A p \in Paths :
             (fs[p] = Absent /\ fs'[p] # Absent) =>
                 /\ result'.op # "show_all_cmd"
                 /\ result'.raised.kind = "none"
                 /\ fs'[p].kind = "text"
                 /\ Loads(fs', p)]_vars

\* a load at a path with no file has returned the empty list
C9_Witness ==
    /\ Did(result, "show_all_cmd")
    /\ fs[result.path] = Absent
    /\ result.ret = PyList(<<>>)

(* C10: validation against Task succeeds exactly for an object whose keys  *)
(* are the five of the schema, with an integer id, text description,       *)
(* created_at and updated_at, and a status among todo, in_progress, done;  *)
(* any other value fails, with an error that says what is wrong with it.   *)
TaskKeys == {"id", "description", "status", "created_at", "updated_at"}
KeySet(obj) == {obj.v[i].k : i \in 1..Len(obj.v)}

HasTaskTypes(obj) ==
    /\ Get(obj, "id").t = "int"
    /\ Get(obj, "description").t = "str"
    /\ Get(obj, "created_at").t = "str"
    /\ Get(obj, "updated_at").t = "str"
    /\ Get(obj, "status").t = "str"
    /\ Get(obj, "status").v \in {"todo", "in_progress", "done"}

IsTask(x) == x.t = "dict" /\ KeySet(x) = TaskKeys /\ HasTaskTypes(x)

C10_ValidExactlyTasks ==
    result.op = "validate" =>
        /\ result.raised.kind = "none" <=> IsTask(value)
        /\ result.raised.kind = "NotAnObject" <=> value.t # "dict"
        /\ result.raised.kind = "MissingFields" => (TaskKeys \ KeySet(value)) # {}
        /\ result.raised.kind = "UnexpectedFields" => (KeySet(value) \ TaskKeys) # {}
        /\ result.raised.kind = "InvalidFieldType" =>
              (KeySet(value) = TaskKeys /\ ~HasTaskTypes(value))

(* C11: for every list of valid tasks, the empty one and those create      *)
(* builds included, writeAll succeeds and a load of the same path right    *)
(* after it succeeds and returns the list written, in content and order:   *)
(* nothing of what the file held before is left.                           *)
C11_WriteThenLoadIsIdentity ==
    [][/\ result'.op = "_write_all" => result'.raised = NoExc
       /\ (result.op = "_write_all" /\ result'.op = "load_tasks"
              /\ result'.path = result.path) =>
             (result'.raised = NoExc /\ result'.ret = value)]_vars

(* C12: nothing isolates two invocations on one file.  A write puts the    *)
(* writer's own loaded list with its one change in the file, whatever the  *)
(* file has come to hold since the load, and raises nothing; so a task     *)
(* another invocation added in between is gone from the file, and a task   *)
(* another invocation deleted in between is back, though that invocation   *)
(* ended without an error.                                                 *)
Contains(tasks, task) == \E k \in 1..Len(tasks) : tasks[k] = task

IsOwnChange(r, tasks) ==
    IF r.op = "create_task" THEN tasks = Append(r.data, r.item)
    ELSE /\ Len(tasks) = Len(r.data) - 1
         /\ \E k \in 1..Len(r.data) :
               /\ IdOf(r.data[k]) = r.task_id
               /\ \A j \in 1..Len(tasks) :
                     tasks[j] = IF j < k THEN r.data[j] ELSE r.data[j + 1]

Succeeded(r, op) == r.pc = "done" /\ r.op = op /\ r.raised = NoExc

C12_LastWriterWins ==
    [][\A i \in Procs :
          (inv[i].pc = "loaded" /\ inv'[i].pc = "done") =>
              LET r == inv[i]
                  after == load_tasks(fs', r.target)
              IN  /\ inv'[i].raised = NoExc
                  /\ ~Raised(after)
                  /\ IsOwnChange(r, after.data)
                  /\ \A j \in Procs \ {i} :
                        /\ (Succeeded(inv[j], "create_task")
                               /\ ~Contains(r.data, inv[j].item)) =>
                              ~Contains(after.data, inv[j].item)
                        /\ (Succeeded(inv[j], "delete_task")
                               /\ inv[j].target = r.target
                               /\ HoldsId(r.data, inv[j].task_id)
                               /\ ~(r.op = "delete_task" /\ r.task_id = inv[j].task_id)) =>
                              HoldsId(after.data, inv[j].task_id)]_vars

\* two adds have both ended without an error, and the file holds the task
\* of one of them only: the other wrote between that one's load and write
C12_Witness ==
    \E i \in Procs, j \in Procs :
        /\ i # j
        /\ Succeeded(inv[i], "create_task") /\ Succeeded(inv[j], "create_task")
        /\ Loads(fs, REPO_FILE_PATH)
        /\ Contains(TasksAt(fs, REPO_FILE_PATH), inv[i].item)
        /\ ~Contains(TasksAt(fs, REPO_FILE_PATH), inv[j].item)
        /\ ~Contains(inv[i].data, inv[j].item)

(* C13, as claimed: when the task that alone holds the highest id of a     *)
(* store is deleted, the next create on that store gives its task that     *)
(* same id; and create never gives an id at or below the maximum of the    *)
(* store it loads.                                                         *)
IsTop(tasks, m) ==
    IF Len(tasks) = 0 THEN m = 0
    ELSE HoldsId(tasks, m) /\ \A k \in 1..Len(tasks) : IdOf(tasks[k]) <= m

\* the step before was a delete, at the path of this create, of the task
\* that alone held the highest id: every id left is below it
DeletedTop(r, created, tasks) ==
    /\ Did(r, "delete_task_cmd")
    /\ r.path = created.path
    /\ \A k \in 1..Len(tasks) : IdOf(tasks[k]) < r.task_id

\* the store at q has gained one task, its last, and the id of that task
GainedId(files, files2, q, id) ==
    /\ Loads(files, q) /\ Loads(files2, q)
    /\ Len(TasksAt(files2, q)) = Len(TasksAt(files, q)) + 1
    /\ IdOf(Last(TasksAt(files2, q))) = id

C13_DeletedTopIdIsReassigned ==
    [][Did(result', "add_task_cmd") =>
          LET loaded == TasksAt(fs, result'.path) IN
          \E q \in Paths, id \in 1..(MaxTasks + 2) :
              /\ GainedId(fs, fs', q, id)
              /\ \A k \in 1..Len(loaded) : IdOf(loaded[k]) < id
              /\ DeletedTop(result, result', loaded) => id = result.task_id]_vars

(* C13, amended: ids are not reserved after deletion.  When the task that  *)
(* alone holds the highest id is deleted, the next create on that store    *)
(* gives an id that is at most the deleted one, and the deleted one itself *)
(* exactly when the highest id left is one less (0 standing for none       *)
(* left); create never gives an id at or below the maximum of the store it *)
(* loads.                                                                  *)
C13_TopIdIsNotReserved ==
    [][Did(result', "add_task_cmd") =>
          LET loaded == TasksAt(fs, result'.path) IN
          \E q \in Paths, id \in 1..(MaxTasks + 2) :
              /\ GainedId(fs, fs', q, id)
              /\ \A k \in 1..Len(loaded) : IdOf(loaded[k]) < id
              /\ DeletedTop(result, result', loaded) =>
                    /\ id <= result.task_id
                    /\ id = result.task_id <=> IsTop(loaded, result.task_id - 1)]_vars

\* the store held ids 2 and 1; the task with id 2 was deleted, and the create
\* after it has given id 2 to its new task
C13_Witness ==
    /\ Did(result, "add_task_cmd")
    /\ result.path = REPO_FILE_PATH
    /\ Loads(fs, REPO_FILE_PATH)
    /\ Len(TasksAt(fs, REPO_FILE_PATH)) = 2
    /\ TasksAt(fs, REPO_FILE_PATH)[1] = StoredTask(1, "a", "todo")
    /\ TasksAt(fs, REPO_FILE_PATH)[2] =
          NewTask(2, result.description, "todo", IsoFormat(clock))

=============================================================================
